---- MODULE Spec2Model ----
(***************************************************************************)
(* Model of the lottery drawing program (src/lottery.py, src/utils.py):    *)
(* the five sampling backends, the argument validator, the concurrent      *)
(* trial reducer (Lottery.drawer) and the drawing session                  *)
(* (Lottery.drawing_session / Lottery.__call__).                           *)
(*                                                                         *)
(* Conventions.                                                            *)
(*   - An Optional value is a set with at most one member: None == {} and  *)
(*     Some(v) == {v}.                                                     *)
(*   - A tuple or list of numbers is a sequence.  A Python set returned by *)
(*     a backend is carried as the ascending sequence of its members; the  *)
(*     session turns the primary result into a set with Range.             *)
(*   - user_nums is a duplicate-free list and is carried as a set.         *)
(*   - The outcome of running a backend is a record: it returns a value,   *)
(*     raises an exception, or never returns (an endless retry loop).      *)
(***************************************************************************)
EXTENDS Integers, Sequences, FiniteSets

\* ---------------------------------------------------------------- bounds
\* Largest pool bound (max_num, max_ext) and largest size (draw_sz, xtr_sz).
MaxNum == 2
\* Largest number that may be fixed by the user (user_nums \subseteq 1..MaxFixed).
MaxFixed == 1
\* Largest trial ceiling (`many`, CONFIG.max_draw_iters) explored on any pool.
MaxMany == 2
\* Trial ceiling explored on one-number pools, where the batch reaches the
\* coin-filter threshold.
BigMany == 10
\* Number of pool threads that run trials at the same time.
Workers == 2
\* Number of calls made on one session object.
MaxCalls == 2
\* Number of coin-filter rounds followed in one drawer invocation.
MaxRounds == 2

\* ------------------------------------------------------ program constants
\* src/lottery.py:174  `while (length := len(draws)) >= 10`
Threshold == 10

BACKENDS == {"choice", "randint", "randrange", "sample", "shuffle"}

\* ---------------------------------------------------------------- helpers
None == {}
Some(v) == {v}

Range(s) == {s[i] : i \in 1..Len(s)}

Min(a, b) == IF a <= b THEN a ELSE b

\* Python slice s[:n] for n >= 0.
Take(s, n) == SubSeq(s, 1, Min(n, Len(s)))

\* list.pop(i) leaves the list without its i-th element (1-based here).
RemoveAt(s, i) == SubSeq(s, 1, i - 1) \o SubSeq(s, i + 1, Len(s))

\* Ascending enumeration of a finite set of integers.
RECURSIVE SortSeq(_)
SortSeq(S) ==
    IF S = {} THEN <<>>
    ELSE LET m == CHOOSE x \in S : \A y \in S : x <= y
         IN  <<m>> \o SortSeq(S \ {m})

\* list(range(1, n + 1))
RangeList(n) == [i \in 1..n |-> i]

\* Sequences of k pairwise different members of 1..n.
InjSeqs(n, k) == {s \in [1..k -> 1..n] : \A i, j \in 1..k : i # j => s[i] # s[j]}

\* All orders of the members of a sequence.
Perms(s) == {[j \in 1..Len(s) |-> s[idx[j]]] : idx \in InjSeqs(Len(s), Len(s))}

\* Python's `a or b` on integers.
Or(a, b) == IF a # 0 THEN a ELSE b

\* `a or b` where a is an Optional integer (None and 0 are both falsy).
OptOr(a, b) == IF a # None /\ a # Some(0) THEN CHOOSE v \in a : TRUE ELSE b

\* --------------------------------------------------------------- outcomes
Ok(v) == [tag |-> "ok", val |-> v, exc |-> ""]
Raise(e) == [tag |-> "raise", val |-> <<>>, exc |-> e]
Hang == [tag |-> "hang", val |-> <<>>, exc |-> ""]

\* --------------------------------------------------------------- backends
\* Each backend is the set of outcomes the random source can produce.
\* nums is self._numbers, usr is self.user_nums, mx and size are the arguments.

\* Lottery.randrange: add a random number, then stop when the set has exactly
\* size + len(user_nums) members.
RECURSIVE RandrangeLoop(_, _, _)
RandrangeLoop(extraction, mx, target) ==
    LET next == {extraction \cup {n} : n \in 1..mx}
    IN  {Ok(SortSeq(e)) : e \in {x \in next : Cardinality(x) = target}}
        \cup UNION {RandrangeLoop(e, mx, target) :
                      e \in {x \in next : Cardinality(x) # target /\ x # extraction}}
        \cup (IF \A x \in next : x = extraction /\ Cardinality(x) # target
              THEN {Hang} ELSE {})

randrange(usr, mx, size) ==
    IF mx < 1 THEN {Raise("ValueError")}
    ELSE RandrangeLoop(usr, mx, size + Cardinality(usr))

\* Lottery.randint: while the set has fewer than size + len(user_nums) members,
\* add a random number.
RECURSIVE RandintLoop(_, _, _)
RandintLoop(extraction, mx, target) ==
    IF ~(Cardinality(extraction) < target) THEN {Ok(SortSeq(extraction))}
    ELSE IF mx < 1 THEN {Raise("ValueError")}
    ELSE UNION {RandintLoop(extraction \cup {n}, mx, target) :
                   n \in (1..mx) \ extraction}
         \cup (IF (1..mx) \subseteq extraction THEN {Hang} ELSE {})

randint(usr, mx, size) == RandintLoop(usr, mx, size + Cardinality(usr))

\* Lottery.choice: pop a random position of the sliced pool, size times.
RECURSIVE ChoiceDraw(_, _, _)
ChoiceDraw(numbers, k, acc) ==
    IF k <= 0 THEN {Ok(acc)}
    ELSE IF Len(numbers) = 0 THEN {Raise("IndexError")}
    ELSE UNION {ChoiceDraw(RemoveAt(numbers, i), k - 1, Append(acc, numbers[i])) :
                   i \in 1..Len(numbers)}

\* (The same loop with the pop replaced by a plain read of the position.)
RECURSIVE ChoiceDrawNoPop(_, _, _)
ChoiceDrawNoPop(numbers, k, acc) ==
    IF k <= 0 THEN {Ok(acc)}
    ELSE IF Len(numbers) = 0 THEN {Raise("IndexError")}
    ELSE UNION {ChoiceDrawNoPop(numbers, k - 1, Append(acc, numbers[i])) :
                   i \in 1..Len(numbers)}

choiceNoPop(nums, mx, size) == ChoiceDrawNoPop(Take(nums, mx), size, <<>>)

choice(nums, mx, size) == ChoiceDraw(Take(nums, mx), size, <<>>)

\* itemgetter(*idx)(numbers): one index gives the bare item, several a tuple.
ItemGetter(idx, numbers) ==
    [is_tuple |-> Len(idx) # 1, items |-> [j \in 1..Len(idx) |-> numbers[idx[j]]]]

\* Lottery.sample: rnd.sample of `size` positions, then itemgetter; a bare item
\* is wrapped into a 1-tuple.
\* (A sample that always takes the leading positions.)
sampleHead(nums, mx, size) ==
    IF size < 0 \/ size > Len(Take(nums, mx)) THEN {Raise("ValueError")}
    ELSE IF size = 0 THEN {Raise("TypeError")}
    ELSE {Ok(Take(Take(nums, mx), size))}

sample(nums, mx, size) ==
    LET numbers == Take(nums, mx)
    IN  IF size < 0 \/ size > Len(numbers) THEN {Raise("ValueError")}
        ELSE IF size = 0 THEN {Raise("TypeError")}
        ELSE {LET got == ItemGetter(idx, numbers)
              IN  Ok(IF got.is_tuple THEN got.items ELSE <<got.items[1]>>) :
                 idx \in InjSeqs(Len(numbers), size)}

\* Lottery.shuffle: a random permutation of the sliced pool, then a window of
\* `size` consecutive items starting at a random offset.
shuffle(nums, mx, size) ==
    LET numbers == Take(nums, mx)
    IN  IF Len(numbers) - size < 0 THEN {Raise("ValueError")}
        ELSE {Ok(SubSeq(p, start + 1, start + size)) :
                 p \in Perms(numbers), start \in 0..(Len(numbers) - size)}

\* getattr(self, name)(max_num, size) for a backend name.
Backend(name, nums, usr, mx, size) ==
    CASE name = "choice" -> choice(nums, mx, size)
      [] name = "randint" -> randint(usr, mx, size)
      [] name = "randrange" -> randrange(usr, mx, size)
      [] name = "sample" -> sample(nums, mx, size)
      [] name = "shuffle" -> shuffle(nums, mx, size)

\* The backend methods of drawers.Drawer, built with user_nums usr and pool
\* `numbers`.  Drawer.randint has the add-then-test loop and Drawer.randrange
\* the test-then-add loop; choice, sample and shuffle slice self.numbers.
Drawer_randint(usr, mx, size) ==
    IF mx < 1 THEN {Raise("ValueError")}
    ELSE RandrangeLoop(usr, mx, size + Cardinality(usr))

Drawer_randrange(usr, mx, size) == RandintLoop(usr, mx, size + Cardinality(usr))

Drawer_choice(numbers, mx, size) == ChoiceDraw(Take(numbers, mx), size, <<>>)

\* `(indexes(pool),) if size == 1 else indexes(pool)`
Drawer_sample(numbers, mx, size) ==
    LET pool == Take(numbers, mx)
    IN  IF size < 0 \/ size > Len(pool) THEN {Raise("ValueError")}
        ELSE IF size = 0 THEN {Raise("TypeError")}
        ELSE {LET got == ItemGetter(idx, pool)
              IN  Ok(IF size = 1 THEN <<got.items[1]>> ELSE got.items) :
                 idx \in InjSeqs(Len(pool), size)}

Drawer_shuffle(numbers, mx, size) ==
    LET pool == Take(numbers, mx)
    IN  IF Len(pool) - size < 0 THEN {Raise("ValueError")}
        ELSE {Ok(SubSeq(p, start + 1, start + size)) :
                 p \in Perms(pool), start \in 0..(Len(pool) - size)}

\* Drawer.__call__ once the backend is resolved to the method `name`.
DrawerBackend(name, numbers, usr, mx, size) ==
    CASE name = "choice" -> Drawer_choice(numbers, mx, size)
      [] name = "randint" -> Drawer_randint(usr, mx, size)
      [] name = "randrange" -> Drawer_randrange(usr, mx, size)
      [] name = "sample" -> Drawer_sample(numbers, mx, size)
      [] name = "shuffle" -> Drawer_shuffle(numbers, mx, size)

\* -------------------------------------------------------------- validator
\* utils.validate_draw_params.wrapper(self, size, max_num): the check on the
\* wrapper's two positional parameters, in the wrapper's order.
validate_draw_params(size, mx) == 0 < size /\ size <= mx

\* ------------------------------------------------------------------ state
VARIABLES
    \* fields of the Lottery object
    CONFIG, user_nums, max_num, max_ext, draw_sz, xtr_sz, result,
    _iters, _numbers, _backend, init_backend,
    \* the call in progress: where the session thread is ("idle", or inside
    \* drawer for the "primary" or the "extra" draw), the `many` argument and
    \* the local `draw` of drawing_session
    pc, many, draw,
    \* the executor of the drawer invocation in progress: trials submitted and
    \* not yet started, trials between the two lines of draw_once (counted per
    \* backend each one resolved), trials stuck in an endless loop, the first
    \* exception a trial raised, and the results of the completed futures
    queued, resolved, hung, fail, draws,
    \* history: calls started, how the last call ended, the values the object
    \* was constructed with, the call each exposed field comes from, and per
    \* drawer invocation / per call counters
    calls, outcome, configured, origin, invocations, rounds, invoked, resolutions,
    \* the last direct invocation of a backend method (specification SpecB)
    direct,
    \* the last assignment to a `backend` property made on its own
    \* (specification SpecR)
    lookup

fields == <<CONFIG, user_nums, max_num, max_ext, draw_sz, xtr_sz, result,
            _iters, _numbers, _backend, init_backend>>
frame == <<pc, many, draw>>
executor == <<queued, resolved, hung, fail, draws>>
history == <<calls, outcome, configured, origin, invocations, rounds, invoked,
             resolutions>>
vars == <<fields, frame, executor, history, direct, lookup>>

\* utils.Config: the configurations explored.  __post_init__ requires
\* max_num >= 1, 0 < draw_sz <= max_num, 0 <= xtr_sz <= max_ext and
\* max_draw_iters >= 1.
Configs ==
    {[max_num |-> MaxNum, draw_sz |-> 1, max_ext |-> e, xtr_sz |-> x,
      max_draw_iters |-> MaxMany, user_nums |-> {}] :
        <<e, x>> \in {<<0, 0>>, <<MaxNum, 0>>, <<MaxNum, 1>>}}

NoBag == [b \in BACKENDS |-> 0]
Running(bag) ==
    bag["choice"] + bag["randint"] + bag["randrange"] + bag["sample"] + bag["shuffle"]

NoOutcome == [status |-> "none", exc |-> "", at |-> "none"]
NoDirect == [cls |-> "none", name |-> "none", mx |-> 0, size |-> 0, out |-> Hang]
NoLookup == [cls |-> "none", name |-> "none", tag |-> "none", stored |-> "", exc |-> ""]

\* Lottery.__init__: every argument falls back to the configuration when it
\* is None or falsy.
Init ==
    \E cfg \in Configs,
       a_max_num \in {None} \cup {Some(v) : v \in 1..MaxNum},
       a_draw_sz \in {None} \cup {Some(v) : v \in 1..MaxNum},
       a_max_ext \in {None} \cup {Some(v) : v \in 0..MaxNum},
       a_xtr_sz \in {None} \cup {Some(v) : v \in 0..MaxNum},
       a_user_nums \in SUBSET (1..MaxFixed) :
        /\ CONFIG = cfg
        /\ user_nums = (IF a_user_nums # {} THEN a_user_nums ELSE cfg.user_nums)
        /\ max_num = OptOr(a_max_num, cfg.max_num)
        /\ draw_sz = OptOr(a_draw_sz, cfg.draw_sz)
        /\ max_ext = OptOr(a_max_ext, cfg.max_ext)
        /\ xtr_sz = OptOr(a_xtr_sz, cfg.xtr_sz)
        /\ result = [draw |-> {}, extra |-> None]
        /\ _iters = 1
        /\ _numbers = RangeList(OptOr(a_max_num, cfg.max_num))
        /\ _backend = "unset"
        /\ init_backend = "unset"
        /\ pc = "idle" /\ many = None /\ draw = None
        /\ queued = 0 /\ resolved = NoBag /\ hung = 0 /\ fail = "" /\ draws = <<>>
        /\ calls = 0 /\ outcome = NoOutcome
        /\ configured = [draw_sz |-> OptOr(a_draw_sz, cfg.draw_sz),
                         user_nums |-> (IF a_user_nums # {} THEN a_user_nums
                                        ELSE cfg.user_nums),
                         xtr_sz_arg |-> a_xtr_sz]
        /\ origin = [draw |-> 0, extra |-> 0]
        /\ invocations = 0 /\ rounds = 0 /\ invoked = {} /\ resolutions = 0
        /\ direct = NoDirect
        /\ lookup = NoLookup

\* ---------------------------------------------------------------- session
\* Lottery.backend (setter): a listed name selects that method, any other name
\* a random one.  The set of methods the assignment can store.
\* (A setter that draws at random whatever the name.)
ResolveAlwaysRandom(name) == BACKENDS

Resolve(name) == IF name \in BACKENDS THEN {name} ELSE BACKENDS

\* list(filter(lambda n: n not in self.user_nums, self.numbers))
Filtered(usr, mx) == SelectSeq(RangeList(mx), LAMBDA n : n \notin usr)

\* `many or rnd.randint(1, ...)`, r being the number rnd.randint returned.
\* (The same assignment without the `many or`.)
ItersIgnoringMany(m, r) == r

Iters(m, r) == OptOr(m, r)

\* __call__, lines 210-211: the values self._iters can get for the argument m,
\* rnd.randint ranging over 1..(CONFIG.max_draw_iters or self._iters).
\* (An assignment that always takes the upper end.)
TrialCountsCeiling(m) == {OptOr(m, Or(CONFIG.max_draw_iters, _iters))}

TrialCounts(m) == {Iters(m, r) : r \in 1..Or(CONFIG.max_draw_iters, _iters)}

\* drawing_session, lines 187-188: the primary draw is kept in the local
\* `draw`; self.result is not written until the session yields.
\* (A session that stores the primary draw in self.result at once.)
AfterPrimaryExposing(res, d) == [res EXCEPT !.draw = d]

AfterPrimary(res, d) == res

\* __call__, line 214: both fields are assigned from the yielded pair.
Exposed(d, x) == [draw |-> d, extra |-> x]

\* all((self.xtr_sz, self.max_ext))
ExtraRequested == xtr_sz # 0 /\ max_ext # 0

\* The arguments of the drawer invocation in progress.
DrawerArgs == IF pc = "primary" THEN <<max_num, draw_sz>> ELSE <<max_ext, xtr_sz>>

\* The (backend, many) arguments explored: every listed name and one other
\* name, with no `many` or one in 1..MaxMany; and, to bring the batch to the
\* coin-filter threshold, BigMany trials of a listed backend when neither
\* pool has more than one number.
CallInputs ==
    ((BACKENDS \cup {""}) \X ({None} \cup {Some(m) : m \in 1..MaxMany}))
    \cup (IF max_num <= 1 /\ max_ext <= 1
          THEN BACKENDS \X {Some(BigMany)} ELSE {})

\* Every future is done and none is stuck: as_completed is exhausted.
\* (A join that does not wait for the trials still in the executor's queue.)
AllStartedDone == Running(resolved) = 0 /\ hung = 0

AllDone == queued = 0 /\ Running(resolved) = 0 /\ hung = 0

\* The call ends (returning or raising): drawing_session's `finally` sets
\* _iters to 0, the executor and the locals are gone.
EndCall(status, exc, at) ==
    /\ pc' = "idle" /\ many' = None /\ draw' = None
    /\ _iters' = 0
    /\ queued' = 0 /\ resolved' = NoBag /\ hung' = 0 /\ fail' = "" /\ draws' = <<>>
    /\ outcome' = [status |-> status, exc |-> exc, at |-> at]
    /\ invocations' = 0 /\ rounds' = 0 /\ invoked' = {} /\ resolutions' = 0

\* drawer is entered (the validator accepted): the executor gets _iters trials.
Launch(phase, n) ==
    /\ pc' = phase
    /\ queued' = n /\ resolved' = NoBag /\ hung' = 0 /\ fail' = "" /\ draws' = <<>>
    /\ invocations' = 0 /\ rounds' = 0

\* Lottery.__call__ up to the point where the primary drawer either is
\* rejected by the validator or has submitted its trials.
Call(backend, m) ==
    /\ pc = "idle" /\ calls < MaxCalls
    /\ \E n \in TrialCounts(m) :
        LET sz == IF user_nums # {} THEN draw_sz - Cardinality(user_nums)
                  ELSE draw_sz
            nums == IF user_nums # {} THEN Filtered(user_nums, max_num)
                    ELSE _numbers
        IN  /\ init_backend' = backend
            /\ _numbers' = nums
            /\ draw_sz' = sz
            /\ calls' = calls + 1
            /\ IF validate_draw_params(max_num, sz)
               THEN /\ Launch("primary", n)
                    /\ _iters' = n /\ many' = m /\ draw' = None
                    /\ invoked' = {} /\ resolutions' = 0
                    /\ UNCHANGED outcome
               ELSE EndCall("raised", "ValueError", "primary")
    /\ UNCHANGED <<CONFIG, user_nums, max_num, max_ext, xtr_sz, result, _backend,
                   configured, origin, direct, lookup>>

\* draw_once, line 150: a pool thread takes a submitted trial and stores the
\* resolved backend in self._backend.
TrialResolve ==
    /\ pc \in {"primary", "extra"}
    /\ queued > 0
    /\ Running(resolved) + hung < Workers
    /\ \E b \in Resolve(init_backend) :
        /\ _backend' = b
        /\ resolved' = [resolved EXCEPT ![b] = @ + 1]
    /\ queued' = queued - 1
    /\ resolutions' = resolutions + 1
    /\ UNCHANGED <<CONFIG, user_nums, max_num, max_ext, draw_sz, xtr_sz, result,
                   _iters, _numbers, init_backend, frame, hung, fail, draws,
                   calls, outcome, configured, origin, invocations, rounds,
                   invoked, direct, lookup>>

\* drawer, line 172: f.result() re-raises the exception of a failed future;
\* f is the exception already pending (the first one met leaves the drawer).
\* (A join that skips failed futures.)
ReraisedNever(f, o) == f

Reraised(f, o) == IF o.tag = "raise" /\ f = "" THEN o.exc ELSE f

\* draw_once, line 151: the trial reads self._backend and runs it; the future
\* completes with the value or the exception, unless the backend never returns.
TrialInvoke ==
    /\ pc \in {"primary", "extra"}
    /\ \E own \in BACKENDS :
        /\ resolved[own] > 0
        /\ resolved' = [resolved EXCEPT ![own] = @ - 1]
    /\ \E o \in Backend(_backend, _numbers, user_nums, DrawerArgs[1], DrawerArgs[2]) :
        /\ draws' = IF o.tag = "ok" THEN Append(draws, o.val) ELSE draws
        /\ fail' = Reraised(fail, o)
        /\ hung' = IF o.tag = "hang" THEN hung + 1 ELSE hung
    /\ invoked' = invoked \cup {_backend}
    /\ invocations' = invocations + 1
    /\ UNCHANGED <<fields, frame, queued, calls, outcome, configured, origin,
                   rounds, resolutions, direct, lookup>>

\* drawer, line 172: f.result() re-raises a trial's exception; the executor's
\* exit waits for every trial, then the exception leaves the session.
DrawerRaise ==
    /\ pc \in {"primary", "extra"}
    /\ AllDone /\ fail # ""
    /\ EndCall("raised", fail, pc)
    /\ UNCHANGED <<CONFIG, user_nums, max_num, max_ext, draw_sz, xtr_sz, result,
                   _numbers, _backend, init_backend, calls, configured, origin,
                   direct, lookup>>

\* compress(draws, selections(length))
RECURSIVE Compress(_, _)
Compress(data, sel) ==
    IF data = <<>> THEN <<>>
    ELSE (IF sel[1] = 1 THEN <<data[1]>> ELSE <<>>) \o Compress(Tail(data), Tail(sel))

\* selections(length): one coin per element.
\* (One coin tossed once for the whole batch.)
selectionsOneCoin(length) == {[i \in 1..length |-> c] : c \in {0, 1}}

selections(length) == [1..length -> {0, 1}]

\* drawer, lines 174-175: one round of the coin filter.
CoinFilter ==
    /\ pc \in {"primary", "extra"}
    /\ AllDone /\ fail = ""
    /\ Len(draws) >= Threshold
    /\ rounds < MaxRounds
    /\ \E sel \in selections(Len(draws)) : draws' = Compress(draws, sel)
    /\ rounds' = rounds + 1
    /\ UNCHANGED <<fields, frame, queued, resolved, hung, fail, calls, outcome,
                   configured, origin, invocations, invoked, resolutions, direct, lookup>>

\* drawer, line 177 on an empty batch: rnd.choice raises IndexError.
SelectEmpty ==
    /\ pc \in {"primary", "extra"}
    /\ AllDone /\ fail = ""
    /\ Len(draws) < Threshold /\ draws = <<>>
    /\ EndCall("raised", "IndexError", pc)
    /\ UNCHANGED <<CONFIG, user_nums, max_num, max_ext, draw_sz, xtr_sz, result,
                   _numbers, _backend, init_backend, calls, configured, origin,
                   direct, lookup>>

\* drawer, line 177, for the primary draw, and drawing_session lines 187-197:
\* the extra drawer is rejected or launched, or the call returns without it.
SelectPrimary ==
    /\ pc = "primary"
    /\ AllDone /\ fail = ""
    /\ Len(draws) < Threshold /\ draws # <<>>
    /\ \E i \in 1..Len(draws) :
        LET d == Range(draws[i]) \cup user_nums
        IN  IF ExtraRequested
            THEN /\ user_nums' = {}
                 /\ _numbers' = RangeList(max_num)
                 /\ result' = AfterPrimary(result, d)
                 /\ IF validate_draw_params(max_ext, xtr_sz)
                    THEN /\ Launch("extra", _iters)
                         /\ draw' = Some(d)
                         /\ UNCHANGED <<_iters, many, outcome, invoked, resolutions>>
                    ELSE EndCall("raised", "ValueError", "extra")
                 /\ UNCHANGED origin
            ELSE /\ result' = Exposed(d, result.extra)
                 /\ origin' = [origin EXCEPT !.draw = calls]
                 /\ EndCall("returned", "", "none")
                 /\ UNCHANGED <<user_nums, _numbers>>
    /\ UNCHANGED <<CONFIG, max_num, max_ext, draw_sz, xtr_sz, _backend,
                   init_backend, calls, configured, direct, lookup>>

\* drawer, line 177, for the extra draw, then __call__ line 214.
SelectExtra ==
    /\ pc = "extra"
    /\ AllDone /\ fail = ""
    /\ Len(draws) < Threshold /\ draws # <<>>
    /\ \E i \in 1..Len(draws), d \in draw :
        /\ result' = Exposed(d, Some(draws[i]))
        /\ origin' = [draw |-> calls, extra |-> calls]
    /\ EndCall("returned", "", "none")
    /\ UNCHANGED <<CONFIG, user_nums, max_num, max_ext, draw_sz, xtr_sz,
                   _numbers, _backend, init_backend, calls, configured, direct, lookup>>

Next ==
    \/ \E in \in CallInputs : Call(in[1], in[2])
    \/ TrialResolve
    \/ TrialInvoke
    \/ DrawerRaise
    \/ CoinFilter
    \/ SelectEmpty
    \/ SelectPrimary
    \/ SelectExtra

Spec == Init /\ [][Next]_vars

\* ------------------------------------------------- backends called directly
\* A backend method of a freshly constructed Lottery is called with
\* arguments (mx, size); direct records the call and what it produced.
Direct(name, mx, size) ==
    /\ pc = "idle"
    /\ \E o \in Backend(name, _numbers, user_nums, mx, size) :
        direct' = [cls |-> "Lottery", name |-> name, mx |-> mx, size |-> size,
                   out |-> o]
    /\ UNCHANGED <<fields, frame, executor, history, lookup>>

\* The same for a Drawer built over the same pool and fixed numbers.
DrawerDirect(name, mx, size) ==
    /\ pc = "idle"
    /\ \E o \in DrawerBackend(name, _numbers, user_nums, mx, size) :
        direct' = [cls |-> "Drawer", name |-> name, mx |-> mx, size |-> size,
                   out |-> o]
    /\ UNCHANGED <<fields, frame, executor, history, lookup>>

DirectArgs == (1..MaxNum) \X (0..(MaxNum + 1))

NextB ==
    \/ \E a \in DirectArgs : Direct("choice", a[1], a[2])
    \/ \E a \in DirectArgs : Direct("randint", a[1], a[2])
    \/ \E a \in DirectArgs : Direct("randrange", a[1], a[2])
    \/ \E a \in DirectArgs : Direct("sample", a[1], a[2])
    \/ \E a \in DirectArgs : Direct("shuffle", a[1], a[2])
    \/ \E a \in DirectArgs, name \in BACKENDS : DrawerDirect(name, a[1], a[2])

SpecB == Init /\ [][NextB]_vars

\* ------------------------------------------------- resolving a backend name
\* The names given to a `backend` property: the listed ones, the empty string
\* (Enter at the prompt), and names of other attributes of the objects.
Names == BACKENDS \cup {"", "numbers", "user_nums", "random_backend"}

\* What a resolution stores, or the exception it raises.
Stored(a) == [tag |-> "ok", stored |-> a, exc |-> ""]
Failed(e) == [tag |-> "raise", stored |-> "", exc |-> e]

\* Attributes of a constructed Drawer that are not backend methods.
DrawerAttributes ==
    {"backend_type", "user_nums", "numbers", "random_backend", "BACKENDS", "__call__"}

\* Drawer.backend (setter): getattr(self, name, self.random_backend()) stores
\* whatever attribute has that name, and the random method only when there is
\* no such attribute.
Drawer_backend(name) ==
    IF name \in BACKENDS \cup DrawerAttributes THEN {Stored(name)}
    ELSE {Stored(b) : b \in BACKENDS}

\* The three names bound in the namespace given to eval by the older
\* Lottery.__call__ (src/Lottery.py).
OldBackends == {"choice", "randint", "sample"}

\* eval(backend, {'__builtins__': {}}, {...}): a bound name gives its method,
\* the empty string is a syntax error, any other identifier a NameError.
Old_backend(name) ==
    IF name \in OldBackends THEN {Stored(name)}
    ELSE IF name = "" THEN {Failed("SyntaxError")}
    ELSE {Failed("NameError")}

SetBackend(cls, name, o) ==
    /\ pc = "idle"
    /\ lookup' = [cls |-> cls, name |-> name, tag |-> o.tag, stored |-> o.stored,
                  exc |-> o.exc]
    /\ UNCHANGED <<fields, frame, executor, history, direct>>

NextR ==
    \/ \E name \in Names : \E b \in Resolve(name) :
          SetBackend("Lottery", name, Stored(b))
    \/ \E name \in Names : \E o \in Drawer_backend(name) :
          SetBackend("Drawer", name, o)
    \/ \E name \in Names : \E o \in Old_backend(name) :
          SetBackend("OldLottery", name, o)

SpecR == Init /\ [][NextR]_vars

\* ------------------------------------------------------------------ claims
InDrawer == pc \in {"primary", "extra"}

\* C1: a request with no fixed numbers and 0 < size <= maxNumber is accepted
\* by the validator, its primary draw raises no error and has exactly `size`
\* distinct numbers, all in 1..maxNumber.
C1_PrimaryDrawAccepted ==
    (calls >= 1 /\ configured.user_nums = {}
       /\ 0 < configured.draw_sz /\ configured.draw_sz <= max_num)
    => /\ outcome.at # "primary"
       /\ (pc = "primary" => fail = "" /\ hung = 0)
       /\ \A d \in draw : Cardinality(d) = configured.draw_sz /\ d \subseteq 1..max_num

\* C2: no backend is invoked with arguments that violate 0 < size <= maxNumber
\* (such a draw fails with ValueError before any trial runs).
C2_BackendGuarded ==
    (InDrawer /\ invocations > 0)
    => (0 < DrawerArgs[2] /\ DrawerArgs[2] <= DrawerArgs[1])

\* C3: every backend method, called on the full pool 1..maxNumber with no
\* fixed numbers and 0 < size <= maxNumber, returns exactly `size` values,
\* none repeated, all in 1..maxNumber; all of 1..maxNumber when size = maxNumber.
C3_BackendContract ==
    (direct.name \in BACKENDS /\ user_nums = {} /\ direct.mx <= max_num
       /\ 0 < direct.size /\ direct.size <= direct.mx)
    => /\ direct.out.tag = "ok"
       /\ Len(direct.out.val) = direct.size
       /\ Cardinality(Range(direct.out.val)) = direct.size
       /\ Range(direct.out.val) \subseteq 1..direct.mx
       /\ (direct.size = direct.mx => Range(direct.out.val) = 1..direct.mx)

C3_Witness ==
    /\ direct.cls = "Lottery" /\ direct.name = "choice" /\ user_nums = {}
    /\ direct.mx = max_num /\ direct.mx >= 2 /\ direct.size = direct.mx
    /\ direct.out.tag = "ok" /\ direct.out.val[1] = direct.mx

\* C4: with a non-empty set F of fixed numbers inside the pool and
\* |F| < size <= maxNumber, the call returns a primary draw of exactly `size`
\* numbers of the pool that contains F.
C4_FixedNumbersInDraw ==
    (calls = 1 /\ pc = "idle" /\ configured.user_nums # {}
       /\ configured.user_nums \subseteq 1..max_num
       /\ Cardinality(configured.user_nums) < configured.draw_sz
       /\ configured.draw_sz <= max_num)
    => /\ outcome.at # "primary"
       /\ (outcome.status = "returned"
             => /\ Cardinality(result.draw) = configured.draw_sz
                /\ configured.user_nums \subseteq result.draw
                /\ result.draw \subseteq 1..max_num)

\* C5: when all trials succeeded, the coin filter ends with a batch of 1 to 9
\* results: the final selection never sees an empty batch.
C5_FinalBatchNonEmpty ==
    (InDrawer /\ AllDone /\ fail = "" /\ Len(draws) < Threshold)
    => Len(draws) >= 1

\* C6: with many = 1 each drawer invocation launches and runs exactly one
\* trial, applies no coin-filter round, and returns that trial's result.
C6_SingleTrial ==
    /\ [](many = Some(1) /\ InDrawer
            => /\ _iters = 1 /\ rounds = 0
               /\ queued + Running(resolved) + invocations = 1)
    /\ [][(many = Some(1) /\ InDrawer /\ pc' # pc /\ fail = "")
            => /\ invocations = 1 /\ draws # <<>> /\ Len(draws) = 1
               /\ (pc = "primary" /\ pc' = "extra"
                     => draw' = Some(Range(draws[1]) \cup user_nums))
               /\ (pc = "primary" /\ pc' = "idle" /\ outcome'.status = "returned"
                     => result'.draw = Range(draws[1]) \cup user_nums)
               /\ (pc = "extra" => /\ pc' = "idle"
                                   /\ outcome'.status = "returned"
                                   /\ result'.extra = Some(draws[1]))]_vars

C6_Witness ==
    /\ many = Some(1) /\ pc = "extra" /\ AllDone /\ fail = ""
    /\ Len(draws) = 1 /\ invocations = 1

\* C7: when extraSize is 0 (also when given as xtr_sz=0 to the constructor) or
\* extraMax is 0, no extra drawer invocation happens and result.extra is None.
C7_NoExtraWhenZero ==
    (configured.xtr_sz_arg = Some(0) \/ xtr_sz = 0 \/ max_ext = 0)
    => pc # "extra" /\ outcome.at # "extra" /\ result.extra = None

\* C8: a failing call leaves result.draw and result.extra as they were (the
\* exposed result changes only in the step in which a call returns), and the
\* two exposed fields always come from the same call.
C8_ResultOnlyOnReturn ==
    /\ [](result.extra # None => origin.extra = origin.draw)
    /\ [][result' # result
            => /\ InDrawer /\ pc' = "idle" /\ outcome'.status = "returned"
               /\ origin'.draw = calls]_vars

C8_Witness ==
    /\ pc = "idle" /\ calls = 2 /\ outcome.status = "raised"
    /\ origin.draw = 1 /\ result.draw # {}

\* C9: calls do not accumulate state: between calls draw_sz and user_nums
\* equal the values the object was constructed with.
C9_NoAccumulation ==
    pc = "idle" => draw_sz = configured.draw_sz /\ user_nums = configured.user_nums

\* C10 (as stated): within one call every trial of the primary and of the
\* extra draw invokes one and the same backend, resolved once.
C10_OneBackendPerCall == Cardinality(invoked) <= 1

\* C10 (amended): every trial resolves the stored name itself before it
\* invokes a backend, and for a listed name every trial of the call invokes
\* that backend.
C10_NamedBackendConsistent ==
    /\ (init_backend \in BACKENDS => invoked \subseteq {init_backend})
    /\ (InDrawer => invocations + Running(resolved) <= resolutions)

C10_Witness ==
    /\ init_backend \in BACKENDS /\ pc = "extra"
    /\ invocations = 2 /\ invoked = {init_backend}

\* C11: resolving a backend name never fails and always stores one of the
\* listed backend methods, in Lottery.backend, in Drawer.backend and in the
\* older Lottery.__call__.
C11_ResolveYieldsBackend ==
    lookup.cls # "none" => lookup.tag = "ok" /\ lookup.stored \in BACKENDS

\* C12: if a trial of a drawer invocation raises, the invocation raises that
\* error to its caller: no coin filter and no selection is made among the
\* results of the other trials, and the exposed result is not written.
C12_FailedTrialFailsDrawer ==
    /\ []((InDrawer /\ rounds = 0 /\ Len(draws) + hung < invocations)
            => fail # "")
    /\ [][(InDrawer /\ fail # "")
            => /\ rounds' = rounds \/ pc' = "idle"
               /\ result' = result
               /\ (pc' # pc => /\ pc' = "idle"
                               /\ outcome' = [status |-> "raised", exc |-> fail,
                                              at |-> pc])]_vars

C12_Witness ==
    /\ InDrawer /\ queued = 0 /\ Running(resolved) = 0 /\ hung = 0
    /\ fail # "" /\ draws # <<>> /\ invocations >= 2

\* C13 (as stated): for a call with ceiling c (the `many` argument, or the
\* configured one when there is none) every value of 1..c, and no other, is a
\* possible number of trials.
C13_AnyCountUpToCeiling ==
    pc = "idle"
    => \A m \in {None} \cup {Some(c) : c \in 1..MaxMany} :
          TrialCounts(m) = 1..OptOr(m, CONFIG.max_draw_iters)

\* C13 (amended): each drawer invocation launches exactly _iters trials; with
\* `many` = c >= 1 that number is c itself, and with no `many` it is any value
\* of 1..CONFIG.max_draw_iters.
C13_TrialCount ==
    /\ (InDrawer => queued + Running(resolved) + invocations = _iters)
    /\ (InDrawer => \A c \in many : _iters = c)
    /\ (InDrawer /\ many = None => 1 <= _iters /\ _iters <= CONFIG.max_draw_iters)
    /\ (pc = "idle" => /\ TrialCounts(None) = 1..CONFIG.max_draw_iters
                       /\ \A c \in 1..MaxMany : TrialCounts(Some(c)) = {c})

C13_Witness ==
    /\ InDrawer /\ many = None /\ _iters = 1 /\ CONFIG.max_draw_iters >= 2
    /\ queued = 0 /\ invocations = 1

\* C14: for choice, randint, randrange and sample, with no fixed numbers and
\* 0 < size <= mx, the sets a backend invocation can return are exactly the
\* size-element subsets of 1..mx: none is unreachable.
C14_EverySubsetReachable ==
    user_nums = {}
    => \A name \in {"choice", "randint", "randrange", "sample"} :
         \A mx \in 1..max_num : \A size \in 1..mx :
            {Range(o.val) : o \in {x \in Backend(name, _numbers, user_nums, mx, size) :
                                      x.tag = "ok"}}
              = {S \in SUBSET (1..mx) : Cardinality(S) = size}

C14_Witness ==
    /\ user_nums = {} /\ direct.cls = "Lottery" /\ direct.name = "sample"
    /\ direct.mx = max_num /\ direct.mx >= 2 /\ direct.size = 1
    /\ direct.out = Ok(<<direct.mx>>)

\* C15: the coin filter and the final selection are applied only when every
\* launched trial has completed; the first of them sees a batch of exactly
\* N = _iters results, one per trial; the value selected is a member of the
\* batch and every position of the batch can be the one selected, so the
\* outcome does not depend on the order of completion.
C15_Barrier ==
    /\ []((pc = "extra" /\ queued = 0 /\ Running(resolved) = 0 /\ hung = 0
             /\ fail = "" /\ Len(draws) < Threshold)
            => \A i \in 1..Len(draws) :
                  ENABLED (SelectExtra /\ result'.extra = Some(draws[i])))
    /\ [][(InDrawer /\ fail = "" /\ (rounds' = rounds + 1 \/ pc' # pc))
            => /\ queued = 0 /\ Running(resolved) = 0 /\ hung = 0
               /\ invocations = _iters
               /\ (rounds = 0 => Len(draws) = _iters)
               /\ (pc = "extra" /\ pc' = "idle" /\ draws # <<>>
                     => \E i \in 1..Len(draws) : result'.extra = Some(draws[i]))]_vars

C15_Witness ==
    /\ pc = "extra" /\ queued = 0 /\ Running(resolved) = 0 /\ hung = 0
    /\ fail = "" /\ rounds = 0 /\ _iters = 2 /\ Len(draws) = 2
    /\ draws[1] # draws[2]

\* C16: concurrent trials share no mutable state: the backend a trial invokes
\* is the one this trial itself resolved, under every interleaving (the step
\* in which a trial invokes self._backend removes from the trials in flight
\* one that resolved that very backend).
C16_TrialInvokesOwnBackend ==
    [][(InDrawer /\ invocations' = invocations + 1)
         => /\ resolved[_backend] > 0
            /\ resolved' = [resolved EXCEPT ![_backend] = @ - 1]]_vars

\* C17: every launched trial terminates (so that the join is reached and the
\* call completes): no trial is ever in a retry loop that cannot reach its
\* target count of distinct numbers.
C17_EveryTrialTerminates == hung = 0

\* The elements of a batch at the positions K, in their order.
C18_SubAt(data, K) == [j \in 1..Cardinality(K) |-> data[SortSeq(K)[j]]]

\* a can be obtained from b by dropping elements.
RECURSIVE C18_IsSubSeq(_, _)
C18_IsSubSeq(a, b) ==
    IF a = <<>> THEN TRUE
    ELSE IF b = <<>> THEN FALSE
    ELSE IF a[1] = b[1] THEN C18_IsSubSeq(Tail(a), Tail(b))
    ELSE C18_IsSubSeq(a, Tail(b))

\* C18: a coin-filter round is applied exactly when the batch has Threshold
\* (10) or more results: a selection is made only below the threshold, where
\* every result of the batch can be the output, and a round only at or above
\* it; a round leaves the results at some set of positions of the batch, and
\* every set of positions is possible (each element is kept or dropped
\* independently of the others).
C18_CoinFilterRounds ==
    /\ []((InDrawer /\ AllDone /\ fail = "" /\ Len(draws) >= Threshold)
            => \A K \in SUBSET (1..Len(draws)) :
                  LET sel == [i \in 1..Len(draws) |-> IF i \in K THEN 1 ELSE 0]
                  IN  /\ sel \in selections(Len(draws))
                      /\ Compress(draws, sel) = C18_SubAt(draws, K))
    /\ []((pc = "primary" /\ ~ExtraRequested /\ AllDone /\ fail = ""
             /\ Len(draws) < Threshold)
            => \A i \in 1..Len(draws) :
                  ENABLED (SelectPrimary
                            /\ result'.draw = Range(draws[i]) \cup user_nums))
    /\ [][(InDrawer /\ fail = "")
            => /\ (rounds' = rounds + 1
                     => /\ Len(draws) >= Threshold
                        /\ Len(draws') <= Len(draws)
                        /\ C18_IsSubSeq(draws', draws))
               /\ (pc' # pc => Len(draws) < Threshold)]_vars

C18_Witness ==
    /\ InDrawer /\ AllDone /\ fail = "" /\ rounds >= 1
    /\ invocations >= Threshold /\ Len(draws) >= 1 /\ Len(draws) < Threshold

\* C19: the Extraction obtained from the session after a call that returned
\* is not modified by a later call.  (`result` is the one Extraction object
\* made by __init__, line 75: what a caller obtains after call k is that
\* object, and origin.draw # 0 says some call has returned.)
C19_ExtractionNotModified ==
    [][origin.draw # 0 => result' = result]_vars

\* C20: the extra draw uses the pool 1..max_ext whatever max_num is: for
\* 0 < xtr_sz <= max_ext (taken here where the validator, as it is called,
\* accepts the pair) the extra draw raises no error, no trial of it fails or
\* is stuck, and every trial yields xtr_sz distinct numbers of 1..max_ext.
C20_ExtraDrawOwnPool ==
    (0 < xtr_sz /\ xtr_sz <= max_ext /\ validate_draw_params(max_ext, xtr_sz))
    => /\ outcome.at # "extra"
       /\ (pc = "extra"
             => /\ fail = "" /\ hung = 0
                /\ \A i \in 1..Len(draws) :
                      /\ Len(draws[i]) = xtr_sz
                      /\ Cardinality(Range(draws[i])) = xtr_sz
                      /\ Range(draws[i]) \subseteq 1..max_ext)

====
